---- MODULE Spec2Model ----
(***************************************************************************)
(* E&M upcoding pipeline of sidscorp/investigative-reports:                *)
(*   scripts/investigate_em_upcoding.py      (Investigation 7, base)       *)
(*   scripts/investigate_em_adjusted.py      (Investigation 7b, adjusted)  *)
(*   investigations/.../investigate_em_convergence.py  (7c, convergence)   *)
(*                                                                         *)
(* Numbers.  A float column is held as an exact extended rational <<n, d>> *)
(* in lowest terms with d >= 0; d = 0 encodes the non-finite floats        *)
(* (<<1,0>> = +inf, <<-1,0>> = -inf, <<0,0>> = NaN).  A column that holds  *)
(* a standard deviation or a z-score (STD_PWI, Z_SCORE, ADJ_Z_SCORE) holds *)
(* its SIGNED SQUARE s*|s| instead of s: squaring with the sign kept is    *)
(* strictly increasing, so every comparison, maximum and test against zero *)
(* the code makes on s has the same outcome on s*|s|, and no square root   *)
(* is needed.  Thresholds are squared the same way where they are compared *)
(* (ZGe).  Rounding of IEEE doubles is not modelled.                       *)
(*                                                                         *)
(* Tables.  A table is a sequence of records (its rows, in file order).    *)
(* Reporting-only columns that feed no later computation (PROVIDER_NAME,   *)
(* STATE, Classification, PROVIDER_TYPE, TOTAL_PAID, TOTAL_BENE_SUM,       *)
(* BENE_CLAIM_RATIO, P95_PWI, ABOVE_P95, the means of the aggregate files)  *)
(* are left out of the rows; every one of the registry columns is a        *)
(* function of the NPI (the registry has one row per NPI).                 *)
(*                                                                         *)
(* Sorts.  Polars sort and unique leave the order of rows with equal keys  *)
(* open.  Where a later step reads that order (the convergence table) every *)
(* order is a behaviour; elsewhere equal keys are put in one fixed order.  *)
(*                                                                         *)
(* Regression.  The least-squares solve of the adjusted script is not      *)
(* computed: its residual vector is an input of the adjusted stage.        *)
(***************************************************************************)
EXTENDS Integers, Sequences, FiniteSets, TLC

VARIABLES
    loaded,     \* claim rows of the focus providers in the Medicaid snapshot
    signals,    \* prior-investigation signal files: name -> [present, npis]
    files,      \* output directory: file name -> Missing or File(sequence of rows)
    pc          \* position of the run: which script / stage comes next

vars == <<loaded, signals, files, pc>>

(***************************************************************************)
(* Program constants                                                       *)
(***************************************************************************)
NEW_CODES == {"99202", "99203", "99204", "99205"}
EST_CODES == {"99211", "99212", "99213", "99214", "99215"}
ALL_EM_CODES == NEW_CODES \cup EST_CODES

MIN_CLAIMS == 500
MIN_PEERS == 20
\* 2.5
Z_THRESHOLD == <<5, 2>>
\* 5.0 dollars per encounter
MIN_ABS_DEV == <<5, 1>>
\* the literal 2.5 of the adjusted flag
ADJ_Z_THRESHOLD == <<5, 2>>

\* a file of the output directory: absent, or present with its rows
Missing == [present |-> FALSE, rows |-> <<>>]
File(table) == [present |-> TRUE, rows |-> table]
Eras == {"pre2021", "post2021"}
Families == {"new", "est"}

(***************************************************************************)
(* Exact float arithmetic on extended rationals                            *)
(***************************************************************************)
Abs(x) == IF x < 0 THEN -x ELSE x
Sgn(x) == IF x < 0 THEN -1 ELSE IF x > 0 THEN 1 ELSE 0

RECURSIVE GCD(_, _)
GCD(a, b) == IF b = 0 THEN a ELSE GCD(b, a % b)

\* n / d as a float: lowest terms; x/0 is +-inf and 0/0 is NaN, as in IEEE
Rat(n, d) ==
    IF d = 0 THEN <<Sgn(n), 0>>
    ELSE LET g == GCD(Abs(n), Abs(d))
             s == Sgn(d)
         IN  <<(s * n) \div g, (s * d) \div g>>

RInt(n) == <<n, 1>>
NaN == <<0, 0>>
IsNaN(a) == a = NaN
IsFinite(a) == a[2] # 0

RNeg(a) == <<-a[1], a[2]>>
RAdd(a, b) ==
    IF a[2] = 0 /\ b[2] = 0
    THEN (IF a = b THEN a ELSE NaN)
    ELSE Rat(a[1] * b[2] + b[1] * a[2], a[2] * b[2])
RSub(a, b) == RAdd(a, RNeg(b))
RMul(a, b) == Rat(a[1] * b[1], a[2] * b[2])
\* float division a / b
RDiv(a, b) ==
    IF IsNaN(a) \/ IsNaN(b) THEN NaN
    ELSE IF b[2] = 0 THEN (IF a[2] = 0 THEN NaN ELSE <<0, 1>>)
    ELSE IF b[1] = 0 THEN <<Sgn(a[1]), 0>>
    ELSE Rat(a[1] * b[2] * Sgn(b[1]), a[2] * Abs(b[1]))

\* comparisons, as Polars expressions make them: a total order in which NaN
\* equals itself and is greater than every other float
RLt(a, b) ==
    IF IsNaN(b) THEN ~IsNaN(a)
    ELSE IF IsNaN(a) THEN FALSE
    ELSE IF a[2] = 0 \/ b[2] = 0
         THEN (IF a[2] = 0 /\ b[2] = 0 THEN a[1] < b[1]
               ELSE IF a[2] = 0 THEN a[1] < 0 ELSE b[1] > 0)
         ELSE LET g == GCD(a[2], b[2]) IN a[1] * (b[2] \div g) < b[1] * (a[2] \div g)
RLe(a, b) == ~RLt(b, a)
RGe(a, b) == ~RLt(a, b)
RGt(a, b) == RLt(b, a)
RZero == <<0, 1>>
RMax(a, b) == IF RLt(a, b) THEN b ELSE a

\* s*|s| for a rational s
SignedSq(a) == Rat(Sgn(a[1]) * a[1] * a[1], a[2] * a[2])
\* z >= t for a z-score held as its signed square and a threshold t
ZGe(zsq, t) == RGe(zsq, SignedSq(t))

(***************************************************************************)
(* Sums over finite sets                                                   *)
(***************************************************************************)
\* the function f with its values computed once (TLC keeps [x \in S |-> e] unevaluated)
Eval(f) == f @@ <<>>

RECURSIVE SumF(_, _)
\* sum of the integer function f over the finite set D
SumF(f, D) ==
    IF D = {} THEN 0
    ELSE LET x == CHOOSE y \in D : TRUE IN f[x] + SumF(f, D \ {x})

RECURSIVE RSumF(_, _)
\* float sum of f over D
RSumF(f, D) ==
    IF D = {} THEN RZero
    ELSE LET x == CHOOSE y \in D : TRUE IN RAdd(f[x], RSumF(f, D \ {x}))

RECURSIVE RSumRange(_, _, _, _)
\* float sum of f over the members of the integer set D within lo .. hi,
\* by halving the range
RSumRange(f, D, lo, hi) ==
    IF lo = hi THEN (IF lo \in D THEN f[lo] ELSE RZero)
    ELSE RAdd(RSumRange(f, D, lo, (lo + hi) \div 2),
              RSumRange(f, D, (lo + hi) \div 2 + 1, hi))

\* float sum of f over the finite set of integers D
RSumInts(f, D) ==
    IF D = {} THEN RZero
    ELSE RSumRange(f, D, CHOOSE x \in D : \A y \in D : x <= y,
                         CHOOSE x \in D : \A y \in D : x >= y)

SeqRange(t) == {t[i] : i \in DOMAIN t}

\* .sort("EST_EXCESS_REVENUE", descending=True); rows with equal keys are put
\* in (CODE_FAMILY, NPI) order
ExcessBefore(q, r) ==
    \/ RGt(q.EST_EXCESS_REVENUE, r.EST_EXCESS_REVENUE)
    \/ /\ q.EST_EXCESS_REVENUE = r.EST_EXCESS_REVENUE
       /\ \/ q.CODE_FAMILY = "new" /\ r.CODE_FAMILY = "est"
          \/ q.CODE_FAMILY = r.CODE_FAMILY /\ q.NPI < r.NPI

\* .sort("OUTLIER_PCT", descending=True) and .sort("NET_EXCESS_REVENUE",
\* descending=True) of the aggregate tables
OutlierPctBefore(q, r) == RGt(q.OUTLIER_PCT, r.OUTLIER_PCT)
NetExcessBefore(q, r) == RGt(q.NET_EXCESS_REVENUE, r.NET_EXCESS_REVENUE)

\* .sort("POST2021_EXCESS", descending=True); equal keys in NPI order
PostExcessBefore(q, r) ==
    \/ RGt(q.POST2021_EXCESS, r.POST2021_EXCESS)
    \/ q.POST2021_EXCESS = r.POST2021_EXCESS /\ q.NPI < r.NPI

\* .sort("ADJ_Z_SCORE", descending=True); equal keys in (CODE_FAMILY, NPI) order
AdjZBefore(q, r) ==
    \/ RGt(q.ADJ_Z_SCORE, r.ADJ_Z_SCORE)
    \/ /\ q.ADJ_Z_SCORE = r.ADJ_Z_SCORE
       /\ \/ q.CODE_FAMILY = "new" /\ r.CODE_FAMILY = "est"
          \/ q.CODE_FAMILY = r.CODE_FAMILY /\ q.NPI < r.NPI

\* the order in which the summary rows are appended: era by era, and within
\* an era family by family
SummaryBefore(q, r) ==
    \/ q.ERA = "pre2021" /\ r.ERA = "post2021"
    \/ q.ERA = r.ERA /\ q.CODE_FAMILY = "new" /\ r.CODE_FAMILY = "est"

\* whether row q comes before row r in a frame sorted (descending) by column `by`
Before(by, q, r) ==
    CASE by = "EST_EXCESS_REVENUE" -> ExcessBefore(q, r)
      [] by = "OUTLIER_PCT"        -> OutlierPctBefore(q, r)
      [] by = "NET_EXCESS_REVENUE" -> NetExcessBefore(q, r)
      [] by = "POST2021_EXCESS"    -> PostExcessBefore(q, r)
      [] by = "ADJ_Z_SCORE"        -> AdjZBefore(q, r)
      [] by = "ERA"                -> SummaryBefore(q, r)

\* df.sort(by, descending=True): the rows of the finite set S as a sequence
SortRows(S, by) ==
    LET rank == Eval([r \in S |-> Cardinality({q \in S : Before(by, q, r)})])
    IN  [i \in 1 .. Cardinality(S) |-> CHOOSE r \in S : rank[r] = i - 1]

(***************************************************************************)
(* The input snapshot                                                      *)
(***************************************************************************)
\* number of background providers of specialty "A" with the typical code mix
NumFiller == 19
\* number of (provider, era) billing histories of focus providers in the snapshot
MaxLoads == 3

FocusNPIs == {1, 2, 3}
FillerNPIs == 101 .. (100 + NumFiller)

\* provider registry joined with the taxonomy map: NPI -> BENCHMARK_SPECIALTY
\* (load_npi: one registry row per NPI)
BenchmarkSpecialty(npi) == IF npi = 3 THEN "B" ELSE IF npi > 200 THEN "C" ELSE "A"
\* the registry's STATE and the taxonomy's PROVIDER_TYPE of a provider
State(npi) == "CA"
ProviderType(npi) == "Individual"

\* CLAIM_FROM_MONTH "YYYY-MM" held as the integer YYYYMM: the fixed-width
\* strings compare as these integers do
EraCut == 202101
MonthOf(era) == IF era = "pre2021" THEN 202012 ELSE 202101
InEra(month, era) == IF era = "pre2021" THEN month < EraCut ELSE month >= EraCut

\* the two codes of each family the snapshot bills, and what one claim is paid
LoCode(fam) == IF fam = "new" THEN "99203" ELSE "99213"
HiCode(fam) == IF fam = "new" THEN "99205" ELSE "99215"
PaidPerClaim(code) ==
    CASE code \in {"99203", "99213"} -> 40
      [] code \in {"99205", "99215"} -> 60
      [] code = "99211" -> 88
      [] code = "99212" -> 111
      [] code = "99214" -> 500
      [] code = "99204" -> 75

ClaimRow(npi, era, code, claims) ==
    [NPI |-> npi, HCPCS_CODE |-> code, CLAIM_FROM_MONTH |-> MonthOf(era),
     TOTAL_CLAIMS |-> claims, TOTAL_PAID |-> claims * PaidPerClaim(code)]

\* code mixes of one provider in one era and code family
Profiles == {"typical", "high", "mild", "down", "small"}
ProfileRows(npi, era, fam, profile) ==
    CASE profile = "typical" -> {ClaimRow(npi, era, LoCode(fam), 250),
                                 ClaimRow(npi, era, HiCode(fam), 250)}
      [] profile = "high"    -> {ClaimRow(npi, era, HiCode(fam), 500)}
      [] profile = "mild"    -> {ClaimRow(npi, era, LoCode(fam), 175),
                                 ClaimRow(npi, era, HiCode(fam), 325)}
      [] profile = "down"    -> {ClaimRow(npi, era, LoCode(fam), 500)}
      [] profile = "small"   -> {ClaimRow(npi, era, HiCode(fam), 200)}

FillerRows ==
    UNION {ProfileRows(n, e, f, "typical") :
               <<n, e, f>> \in FillerNPIs \X Eras \X Families}

\* billing histories of one focus provider in one era: a code mix in the
\* new-patient family, in the established-patient family, or in both
Histories ==
    {"new_typical", "new_high", "new_mild", "new_small",
     "new_high_est_mild", "new_high_est_high"}
\* the histories of the second focus provider: an upcoder or a downcoder
PlainHistories == {"new_high", "new_down"}
HistoryRows(npi, era, h) ==
    CASE h = "new_typical" -> ProfileRows(npi, era, "new", "typical")
      [] h = "new_high"    -> ProfileRows(npi, era, "new", "high")
      [] h = "new_mild"    -> ProfileRows(npi, era, "new", "mild")
      [] h = "new_down"    -> ProfileRows(npi, era, "new", "down")
      [] h = "new_small"   -> ProfileRows(npi, era, "new", "small")
      [] h = "new_high_est_mild" ->
            ProfileRows(npi, era, "new", "high") \cup ProfileRows(npi, era, "est", "mild")
      [] h = "new_high_est_high" ->
            ProfileRows(npi, era, "new", "high") \cup ProfileRows(npi, era, "est", "high")
      [] h = "new_high_unbilled" ->
            ProfileRows(npi, era, "new", "high") \cup {ClaimRow(npi, era, "99204", 0)}

\* the histories each focus provider may bring into the snapshot
LoadChoices ==
    ({1} \X Eras \X Histories)
    \cup ({2} \X Eras \X PlainHistories)
    \cup ({3} \X {"post2021"} \X {"new_high"})

EraOfMonth(m) == IF m < EraCut THEN "pre2021" ELSE "post2021"

\* A cohort of 26 established-patient providers of specialty "C" in the
\* post-2021 era: ten with an index of 88, five with 100, ten with 111 (median
\* 100, standard deviation about 10) and one with 1,000 claims at 500.  The
\* three codes are billed by nobody else, so their national prices are 88,
\* 111 and 500.
CohortNPIs == 201 .. 226
TopNPI == CHOOSE n \in CohortNPIs : \A m \in CohortNPIs : m <= n
CohortRows ==
    UNION {IF n <= 210 THEN {ClaimRow(n, "post2021", "99211", 500)}
           ELSE IF n <= 215 THEN {ClaimRow(n, "post2021", "99211", 275),
                                  ClaimRow(n, "post2021", "99212", 300)}
           ELSE IF n <= 225 THEN {ClaimRow(n, "post2021", "99212", 500)}
           ELSE {ClaimRow(n, "post2021", "99214", 1000)} : n \in CohortNPIs}
\* A cohort of 21 established-patient providers of specialty "C": one with an
\* index of 88, eighteen with 100, one with 111 and one that bills only the
\* code priced 500.  The cohort bills in post-2021 and, when preTop > 0, in
\* pre-2021 as well; preTop and postTop are the claims of the last provider.
FitNPIs == 301 .. 321
FitTopNPI == CHOOSE n \in FitNPIs : \A m \in FitNPIs : m <= n
FitFirstNPI == CHOOSE n \in FitNPIs : \A m \in FitNPIs : n <= m
FitEraRows(era, top) ==
    UNION {IF n = FitFirstNPI THEN {ClaimRow(n, era, "99211", 500)}
           ELSE IF n = FitFirstNPI + 1 THEN {ClaimRow(n, era, "99212", 500)}
           ELSE IF n = FitTopNPI THEN {ClaimRow(n, era, "99214", top)}
           ELSE {ClaimRow(n, era, "99211", 275), ClaimRow(n, era, "99212", 300)} :
           n \in FitNPIs}
TopClaims == {500, 1000, 1500, 2000, 2500}
\* the same cohort when the code priced 500 has one row in the era, a paid
\* amount without a claim, and the last provider bills 500 claims of another code
FitUnpricedRows(era) ==
    {r \in FitEraRows(era, 500) : r.NPI # FitTopNPI}
    \cup {ClaimRow(FitTopNPI, era, "99212", 500),
          [NPI |-> FitTopNPI, HCPCS_CODE |-> "99214", CLAIM_FROM_MONTH |-> MonthOf(era),
           TOTAL_CLAIMS |-> 0, TOTAL_PAID |-> 250]}
FitSnapshots ==
    {FitEraRows("post2021", post) : post \in TopClaims}
    \cup {FitEraRows("pre2021", pre) \cup FitEraRows("post2021", post) :
            <<pre, post>> \in TopClaims \X TopClaims}
    \cup {FitUnpricedRows("pre2021") \cup FitUnpricedRows("post2021")}
\* the histories that may join the snapshot that holds the cohort
CohortLoadChoices ==
    ({2} \X Eras \X (PlainHistories \cup {"new_high_unbilled"}))
    \cup ({3} \X {"post2021"} \X {"new_high"})
\* the (provider, era) histories already in the snapshot
LoadedSlots(rows) ==
    {<<r.NPI, EraOfMonth(r.CLAIM_FROM_MONTH)>> : r \in {q \in rows : q.NPI \in FocusNPIs}}

\* load_medicaid(): the whole claim table
Medicaid(rows) == FillerRows \cup rows

(***************************************************************************)
(* investigate_em_upcoding.py                                              *)
(***************************************************************************)
\* the base frame without the TOTAL_PAID > 0 filter
EmBaseKeepsUnpaid(medicaid) ==
    {r \in medicaid : /\ r.HCPCS_CODE \in ALL_EM_CODES
                      /\ BenchmarkSpecialty(r.NPI) # "null"}

\* main: the base E&M frame
EmBase(medicaid) ==
    {r \in medicaid : /\ r.HCPCS_CODE \in ALL_EM_CODES
                      /\ r.TOTAL_PAID > 0
                      /\ BenchmarkSpecialty(r.NPI) # "null"}

\* the era frame without the date filter
EraDataAllMonths(em_base, era) == em_base

\* run_era_analysis: em_base.filter(date_filter)
EraData(em_base, era) == {r \in em_base : InEra(r.CLAIM_FROM_MONTH, era)}

\* compute_national_prices: HCPCS_CODE -> sum(TOTAL_PAID) / sum(TOTAL_CLAIMS)
ComputeNationalPrices(em_data) ==
    Eval([c \in {r.HCPCS_CODE : r \in em_data} |->
            LET rs == {r \in em_data : r.HCPCS_CODE = c}
            IN  RDiv(RInt(SumF([r \in rs |-> r.TOTAL_PAID], rs)),
                     RInt(SumF([r \in rs |-> r.TOTAL_CLAIMS], rs)))])

\* k-th smallest value of f over D (k in 1 .. |D|)
KthSmallest(f, D, k) ==
    CHOOSE v \in {f[d] : d \in D} :
        /\ Cardinality({d \in D : RLt(f[d], v)}) < k
        /\ k <= Cardinality({d \in D : RLe(f[d], v)})

\* pl.median: the middle value, or the mean of the two middle values
Median(f, D) ==
    LET n == Cardinality(D)
    IN  IF n = 0 THEN NaN
        ELSE IF n % 2 = 1 THEN KthSmallest(f, D, (n + 1) \div 2)
        ELSE RDiv(RAdd(KthSmallest(f, D, n \div 2), KthSmallest(f, D, n \div 2 + 1)),
                  RInt(2))

\* the population variance (ddof = 0): sum((x - mean)^2) / n
StdSqPopulation(f, D) ==
    LET n == Cardinality(D)
        mean == RDiv(RSumInts(f, D), RInt(n))
        sq == Eval([d \in D |-> LET e == RSub(f[d], mean) IN RMul(e, e)])
    IN  IF n <= 1 THEN NaN ELSE RDiv(RSumInts(sq, D), RInt(n))

\* Expr.std() (ddof = 1), as its square: sum((x - mean)^2) / (n - 1).  One value
\* gives null, held as NaN here: the group is dropped by the peer floor before
\* the value is read.
StdSq(f, D) ==
    LET n == Cardinality(D)
        mean == RDiv(RSumInts(f, D), RInt(n))
        sq == Eval([d \in D |-> LET e == RSub(f[d], mean) IN RMul(e, e)])
    IN  IF n <= 1 THEN NaN ELSE RDiv(RSumInts(sq, D), RInt(n - 1))

\* the floor taken as any billed claim at all
MeetsMinClaimsAnyClaim(total) == total >= 1

\* provider_totals: the MIN_CLAIMS floor
MeetsMinClaims(total) == total >= MIN_CLAIMS

\* the peer floor off by one: a cohort of MIN_PEERS - 1 passes
MeetsMinPeersOffByOne(count) == count >= MIN_PEERS - 1

\* specialty_stats: the MIN_PEERS floor
MeetsMinPeers(count) == count >= MIN_PEERS

\* the z-score without the STD = 0 guard: the division is always made
ZScoreUnguarded(pwi, median, stdsq) ==
    RDiv(SignedSq(RSub(pwi, median)), stdsq)

\* Z_SCORE with the STD = 0 guard (std and result as signed squares)
ZScore(pwi, median, stdsq) ==
    IF RGt(stdsq, RZero)
    THEN RDiv(SignedSq(RSub(pwi, median)), stdsq)
    ELSE RZero

AbsDeviation(pwi, median) == RSub(pwi, median)

\* the excess per encounter, not multiplied by the claim total
EstExcessRevenuePerClaim(abs_dev, claims) == abs_dev

EstExcessRevenue(abs_dev, claims) == RMul(abs_dev, RInt(claims))

\* the flag from the z-score alone, without the absolute-deviation gate
IsOutlierZOnly(z, abs_dev) == ZGe(z, Z_THRESHOLD)

\* IS_OUTLIER: Z >= threshold AND abs deviation >= min
IsOutlier(z, abs_dev) == ZGe(z, Z_THRESHOLD) /\ RGe(abs_dev, MIN_ABS_DEV)

\* the magnitude in place of the floor at zero
ClipAsMagnitude(x) == IF RLt(x, RZero) THEN RNeg(x) ELSE x

\* clip(lower_bound=0)
ClipLower0(x) == IF RLt(x, RZero) THEN RZero ELSE x

\* provider_totals and provider_pwi: for each provider of the family that
\* meets the MIN_CLAIMS floor, its claim total and its price-weighted index
ProviderPwi(family_data, national_prices) ==
    LET RowsOf(n) == {r \in family_data : r.NPI = n}
        Total(n) == SumF([r \in RowsOf(n) |-> r.TOTAL_CLAIMS], RowsOf(n))
        CodeClaims(n, c) ==
            LET rs == {r \in family_data : r.NPI = n /\ r.HCPCS_CODE = c}
            IN  SumF([r \in rs |-> r.TOTAL_CLAIMS], rs)
        Weighted(n) ==
            LET cs == {r.HCPCS_CODE : r \in RowsOf(n)}
            IN  RSumF([c \in cs |-> RMul(RInt(CodeClaims(n, c)), national_prices[c])], cs)
    IN  Eval([n \in {m \in {r.NPI : r \in family_data} : MeetsMinClaims(Total(m))} |->
                [TOTAL_EM_CLAIMS |-> Total(n),
                 PRICE_WEIGHTED_INDEX |-> RDiv(Weighted(n), RInt(Total(n)))]])

\* specialty_stats before the MIN_PEERS filter: per specialty the median, the
\* std and the number of providers
SpecialtyStats(provider_pwi) ==
    LET pwi == Eval([n \in DOMAIN provider_pwi |-> provider_pwi[n].PRICE_WEIGHTED_INDEX])
        Peers(s) == {n \in DOMAIN provider_pwi : BenchmarkSpecialty(n) = s}
    IN  Eval([s \in {BenchmarkSpecialty(n) : n \in DOMAIN provider_pwi} |->
                [MEDIAN_PWI |-> Median(pwi, Peers(s)),
                 STD_PWI |-> StdSq(pwi, Peers(s)),
                 PEER_COUNT |-> Cardinality(Peers(s))]])

\* one row of the result: the provider's values joined with its specialty's
ResultRow(n, p, st, family_label, era_label) ==
    LET z == ZScore(p.PRICE_WEIGHTED_INDEX, st.MEDIAN_PWI, st.STD_PWI)
        ad == AbsDeviation(p.PRICE_WEIGHTED_INDEX, st.MEDIAN_PWI)
        ex == EstExcessRevenue(ad, p.TOTAL_EM_CLAIMS)
    IN  [NPI |-> n,
         BENCHMARK_SPECIALTY |-> BenchmarkSpecialty(n),
         CODE_FAMILY |-> family_label,
         ERA |-> era_label,
         TOTAL_EM_CLAIMS |-> p.TOTAL_EM_CLAIMS,
         PRICE_WEIGHTED_INDEX |-> p.PRICE_WEIGHTED_INDEX,
         MEDIAN_PWI |-> st.MEDIAN_PWI,
         STD_PWI |-> st.STD_PWI,
         Z_SCORE |-> z,
         ABS_DEVIATION |-> ad,
         EST_EXCESS_REVENUE |-> ex,
         EST_EXCESS_REVENUE_CLIPPED |-> ClipLower0(ex),
         PEER_COUNT |-> st.PEER_COUNT,
         IS_OUTLIER |-> IsOutlier(z, ad)]

\* the inner join on the specialties that meet the MIN_PEERS floor
JoinStats(provider_pwi, specialty_stats, family_label, era_label) ==
    {ResultRow(n, provider_pwi[n], specialty_stats[BenchmarkSpecialty(n)],
               family_label, era_label) :
        n \in {m \in DOMAIN provider_pwi :
                 MeetsMinPeers(specialty_stats[BenchmarkSpecialty(m)].PEER_COUNT)}}

\* analyze_code_family: the result table (empty when no provider qualifies)
AnalyzeCodeFamily(em_data, national_prices, codes, family_label, era_label) ==
    LET provider_pwi == ProviderPwi({r \in em_data : r.HCPCS_CODE \in codes}, national_prices)
    IN  SortRows(JoinStats(provider_pwi, SpecialtyStats(provider_pwi),
                           family_label, era_label),
                 "EST_EXCESS_REVENUE")

\* output file names (OUTPUT_DIR / ...)
FamilyFile(fam, era) ==
    CASE fam = "new" /\ era = "pre2021"  -> "em_upcoding_providers_new_pre2021.csv"
      [] fam = "new" /\ era = "post2021" -> "em_upcoding_providers_new_post2021.csv"
      [] fam = "est" /\ era = "pre2021"  -> "em_upcoding_providers_est_pre2021.csv"
      [] fam = "est" /\ era = "post2021" -> "em_upcoding_providers_est_post2021.csv"
EraFile(era) ==
    IF era = "pre2021" THEN "em_upcoding_providers_pre2021.csv"
    ELSE "em_upcoding_providers_post2021.csv"
CrossEraFile == "em_upcoding_cross_era_summary.csv"
\* the adjusted table written under the name of the base era table
AdjustedFileOverBase(era) ==
    IF era = "pre2021" THEN "em_upcoding_providers_pre2021.csv"
    ELSE "em_upcoding_providers_post2021.csv"
AdjustedFile(era) ==
    IF era = "pre2021" THEN "em_upcoding_adjusted_pre2021.csv"
    ELSE "em_upcoding_adjusted_post2021.csv"
AggregateFile(kind, era) ==
    CASE kind = "specialty" /\ era = "pre2021"  -> "em_upcoding_by_specialty_pre2021.csv"
      [] kind = "specialty" /\ era = "post2021" -> "em_upcoding_by_specialty_post2021.csv"
      [] kind = "state" /\ era = "pre2021"      -> "em_upcoding_by_state_pre2021.csv"
      [] kind = "state" /\ era = "post2021"     -> "em_upcoding_by_state_post2021.csv"
      [] kind = "type" /\ era = "pre2021"       -> "em_upcoding_by_type_pre2021.csv"
      [] kind = "type" /\ era = "post2021"      -> "em_upcoding_by_type_post2021.csv"
AdjustmentSummaryFile == "em_upcoding_adjustment_summary.csv"
ConvergenceFile == "em_upcoding_convergence.csv"
FlaggedFile == "em_upcoding_convergence_flagged.csv"
FileNames ==
    {FamilyFile(f, e) : <<f, e>> \in Families \X Eras}
    \cup {EraFile(e) : e \in Eras} \cup {AdjustedFile(e) : e \in Eras}
    \cup {AggregateFile(k, e) : <<k, e>> \in {"specialty", "state", "type"} \X Eras}
    \cup {CrossEraFile, AdjustmentSummaryFile, ConvergenceFile, FlaggedFile}

\* write_csv of a set of (name, table) pairs into the output directory
WriteAll(dir, written) ==
    [f \in FileNames |->
        IF \E w \in written : w[1] = f
        THEN File((CHOOSE w \in written : w[1] = f)[2])
        ELSE dir[f]]

\* one aggregate of write_aggregates: combined.group_by(by).agg(...) (the mean
\* columns are left out); STATE and PROVIDER_TYPE are registry columns
KeyOf(by, r) ==
    CASE by = "BENCHMARK_SPECIALTY" -> r.BENCHMARK_SPECIALTY
      [] by = "STATE"               -> State(r.NPI)
      [] by = "PROVIDER_TYPE"       -> ProviderType(r.NPI)
AggregateBy(combined, by) ==
    LET Of(k) == {i \in DOMAIN combined : KeyOf(by, combined[i]) = k}
    IN  {[KEY |-> k,
          PROVIDER_COUNT |-> Cardinality(Of(k)),
          NET_EXCESS_REVENUE |->
              RSumInts([i \in Of(k) |-> combined[i].EST_EXCESS_REVENUE], Of(k)),
          OUTLIER_COUNT |-> Cardinality({i \in Of(k) : combined[i].IS_OUTLIER}),
          OUTLIER_PCT |-> RDiv(RInt(Cardinality({i \in Of(k) : combined[i].IS_OUTLIER})),
                               RInt(Cardinality(Of(k))))]
        : k \in {KeyOf(by, combined[i]) : i \in DOMAIN combined}}

BY_TYPE_MIN_COUNT == 50

\* write_aggregates: the three aggregate tables of one era
WriteAggregates(combined, era_label) ==
    {<<AggregateFile("specialty", era_label),
       SortRows({a \in AggregateBy(combined, "BENCHMARK_SPECIALTY") :
                    a.PROVIDER_COUNT >= MIN_PEERS}, "OUTLIER_PCT")>>,
     <<AggregateFile("state", era_label),
       SortRows(AggregateBy(combined, "STATE"), "NET_EXCESS_REVENUE")>>,
     <<AggregateFile("type", era_label),
       SortRows({a \in AggregateBy(combined, "PROVIDER_TYPE") :
                    a.PROVIDER_COUNT > BY_TYPE_MIN_COUNT}, "OUTLIER_PCT")>>}

\* run_era_analysis: the files one era writes; an empty family result is None
\* and writes nothing, and with both families None the era writes nothing
RunEraAnalysisWrites(em_base, era_label) ==
    LET em_data == EraData(em_base, era_label)
        nat_prices == ComputeNationalPrices(em_data)
        df_new == AnalyzeCodeFamily(em_data, nat_prices, NEW_CODES, "new", era_label)
        df_est == AnalyzeCodeFamily(em_data, nat_prices, EST_CODES, "est", era_label)
        combined == df_new \o df_est
    IN  (IF df_new = <<>> THEN {} ELSE {<<FamilyFile("new", era_label), df_new>>})
        \cup (IF df_est = <<>> THEN {} ELSE {<<FamilyFile("est", era_label), df_est>>})
        \cup (IF combined = <<>> THEN {}
              ELSE {<<EraFile(era_label), combined>>} \cup WriteAggregates(combined, era_label))

RECURSIVE RMaxF(_, _)
\* pl.max of f over the non-empty set D
RMaxF(f, D) ==
    LET x == CHOOSE y \in D : TRUE
    IN  IF D = {x} THEN f[x] ELSE RMax(f[x], RMaxF(f, D \ {x}))

\* era_agg without the IS_OUTLIER filter: every row of the provider is aggregated
EraAggAllRows(df) ==
    LET Of(n) == {i \in DOMAIN df : df[i].NPI = n}
    IN  {[NPI |-> n,
          BENCHMARK_SPECIALTY |-> df[CHOOSE i \in Of(n) : TRUE].BENCHMARK_SPECIALTY,
          Z_SCORE |-> RMaxF([i \in Of(n) |-> df[i].Z_SCORE], Of(n)),
          EXCESS |-> RSumF([i \in Of(n) |-> df[i].EST_EXCESS_REVENUE_CLIPPED], Of(n)),
          CLAIMS |-> SumF([i \in Of(n) |-> df[i].TOTAL_EM_CLAIMS], Of(n))]
        : n \in {df[i].NPI : i \in {j \in DOMAIN df : df[j].IS_OUTLIER}}}

\* cross_era_summary.era_agg: one row per provider flagged in the era, over
\* its IS_OUTLIER rows (max Z, sum clipped excess, sum claims)
EraAgg(df) ==
    LET out == {i \in DOMAIN df : df[i].IS_OUTLIER}
        Of(n) == {i \in out : df[i].NPI = n}
    IN  {[NPI |-> n,
          BENCHMARK_SPECIALTY |-> df[CHOOSE i \in Of(n) : TRUE].BENCHMARK_SPECIALTY,
          Z_SCORE |-> RMaxF([i \in Of(n) |-> df[i].Z_SCORE], Of(n)),
          EXCESS |-> RSumF([i \in Of(n) |-> df[i].EST_EXCESS_REVENUE_CLIPPED], Of(n)),
          CLAIMS |-> SumF([i \in Of(n) |-> df[i].TOTAL_EM_CLAIMS], Of(n))]
        : n \in {df[i].NPI : i \in out}}

\* the summary row of one provider's two era aggregates
SummaryRow(a, b) ==
    [NPI |-> a.NPI,
     BENCHMARK_SPECIALTY |-> a.BENCHMARK_SPECIALTY,
     PRE2021_Z_SCORE |-> a.Z_SCORE,
     PRE2021_EXCESS |-> a.EXCESS,
     PRE2021_CLAIMS |-> a.CLAIMS,
     POST2021_Z_SCORE |-> b.Z_SCORE,
     POST2021_EXCESS |-> b.EXCESS,
     POST2021_CLAIMS |-> b.CLAIMS]

\* both_npis: the providers with an IS_OUTLIER row in each table
BothNpis(pre, post) ==
    {pre[i].NPI : i \in {j \in DOMAIN pre : pre[j].IS_OUTLIER}}
    \cap {post[i].NPI : i \in {j \in DOMAIN post : post[j].IS_OUTLIER}}

\* the summary as a union of the eras: a provider flagged in one era only is
\* kept, with the aggregate of the era it has standing in for the other
CrossEraSummaryEitherEra(pre, post) ==
    SortRows({SummaryRow(a, b) : <<a, b>> \in
                {ab \in (EraAgg(pre) \cup EraAgg(post)) \X (EraAgg(pre) \cup EraAgg(post)) :
                    /\ ab[1].NPI = ab[2].NPI
                    /\ ab[1] \in EraAgg(pre) \/ ab[1].NPI \notin {x.NPI : x \in EraAgg(pre)}
                    /\ ab[2] \in EraAgg(post) \/ ab[2].NPI \notin {x.NPI : x \in EraAgg(post)}}},
             "POST2021_EXCESS")

\* cross_era_summary: the summary table of two era tables (both not None);
\* with no provider flagged in both eras it is the empty table, and otherwise
\* the inner join of the two era aggregates
CrossEraSummary(pre, post) ==
    IF BothNpis(pre, post) = {} THEN <<>>
    ELSE SortRows({SummaryRow(ab[1], ab[2]) :
                     ab \in {x \in EraAgg(pre) \X EraAgg(post) : x[1].NPI = x[2].NPI}},
                  "POST2021_EXCESS")

(***************************************************************************)
(* investigate_em_adjusted.py                                              *)
(***************************************************************************)
\* The OLS solve (design matrix, ridge term 1e-8, numpy.linalg.solve) is not
\* computed: fit_and_residualize takes the residual vector as an input, any
\* vector of ResidualChoices.  Every formula checked over the adjusted tables
\* therefore holds for whatever residuals the solve returns within that set.
BigResidual == <<10, 1>>
ResidualChoices(providers) ==
    LET focus == {providers[i].NPI : i \in DOMAIN providers} \cap FocusNPIs
    IN  {[i \in DOMAIN providers |-> IF providers[i].NPI \in B THEN BigResidual ELSE RZero] :
            B \in {{}} \cup {{n} : n \in focus}}

\* spec_resid_stats: the SPEC_N >= MIN_PEERS filter
ADJ_MIN_PEERS == 20
\* the filter as a strict comparison
AdjMeetsMinPeersStrictly(spec_n) == spec_n > ADJ_MIN_PEERS
AdjMeetsMinPeers(spec_n) == spec_n >= ADJ_MIN_PEERS

\* ADJ_Z_SCORE as the bare division, without the guard
AdjZScoreUnguarded(resid, median, stdsq) ==
    RDiv(SignedSq(RSub(resid, median)), stdsq)

\* ADJ_Z_SCORE with the SPEC_RESID_STD = 0 guard (signed squares)
AdjZScore(resid, median, stdsq) ==
    IF RGt(stdsq, RZero)
    THEN RDiv(SignedSq(RSub(resid, median)), stdsq)
    ELSE RZero

\* ADJ_IS_OUTLIER
AdjIsOutlier(adj_z) == ZGe(adj_z, ADJ_Z_THRESHOLD)

\* the chain with the labels of the two one-sided branches exchanged
MovementSwapped(is_outlier, adj_is_outlier) ==
    IF is_outlier /\ adj_is_outlier THEN "PERSISTENT"
    ELSE IF is_outlier /\ ~adj_is_outlier THEN "UNMASKED"
    ELSE IF ~is_outlier /\ adj_is_outlier THEN "EXPLAINED"
    ELSE "NORMAL"

\* MOVEMENT: the when / then chain over (IS_OUTLIER, ADJ_IS_OUTLIER)
Movement(is_outlier, adj_is_outlier) ==
    IF is_outlier /\ adj_is_outlier THEN "PERSISTENT"
    ELSE IF is_outlier /\ ~adj_is_outlier THEN "EXPLAINED"
    ELSE IF ~is_outlier /\ adj_is_outlier THEN "UNMASKED"
    ELSE "NORMAL"

\* fit_and_residualize: the rows of providers (the left join on the one-row-
\* per-NPI profiles keeps each row once) with the adjusted columns, in input order
FitAndResidualize(providers, residuals) ==
    LET idx == DOMAIN providers
        resid == Eval([i \in idx |-> residuals[i]])
        Group(s) == {i \in idx : providers[i].BENCHMARK_SPECIALTY = s}
        spec_resid_stats ==
            Eval([s \in {providers[i].BENCHMARK_SPECIALTY : i \in idx} |->
                    [SPEC_RESID_MEDIAN |-> Median(resid, Group(s)),
                     SPEC_RESID_STD |-> StdSq(resid, Group(s)),
                     SPEC_N |-> Cardinality(Group(s))]])
        kept == {i \in idx : AdjMeetsMinPeers(spec_resid_stats[providers[i].BENCHMARK_SPECIALTY].SPEC_N)}
        Row(i) ==
            LET st == spec_resid_stats[providers[i].BENCHMARK_SPECIALTY]
                az == AdjZScore(resid[i], st.SPEC_RESID_MEDIAN, st.SPEC_RESID_STD)
                ao == AdjIsOutlier(az)
            IN  [NPI |-> providers[i].NPI,
                 BENCHMARK_SPECIALTY |-> providers[i].BENCHMARK_SPECIALTY,
                 CODE_FAMILY |-> providers[i].CODE_FAMILY,
                 ERA |-> providers[i].ERA,
                 PRICE_WEIGHTED_INDEX |-> providers[i].PRICE_WEIGHTED_INDEX,
                 Z_SCORE |-> providers[i].Z_SCORE,
                 IS_OUTLIER |-> providers[i].IS_OUTLIER,
                 ADJ_RESIDUAL |-> resid[i],
                 ADJ_Z_SCORE |-> az,
                 ADJ_IS_OUTLIER |-> ao,
                 MOVEMENT |-> Movement(providers[i].IS_OUTLIER, ao)]
    IN  {Row(i) : i \in kept}

(***************************************************************************)
(* The normal equations, for a base table of one specialty and profiles in *)
(* which one covariate x varies and the other three are constant.  X_spec  *)
(* has no column; a constant covariate has std 0, which is replaced by 1,  *)
(* so its standardised column is 0; x_std sums to 0 and its squares to n.  *)
(* XtX + 1e-8 I is then diagonal, (n + 1e-8, n + 1e-8, 1e-8, 1e-8, 1e-8),  *)
(* and beta = (sum y, sum x_std y, 0, 0, 0) / (n + 1e-8): the prediction   *)
(* X beta is the least-squares line through (x, y) shrunk by n/(n + 1e-8). *)
(***************************************************************************)
\* the Tikhonov term added to the diagonal of XtX
RIDGE == <<1, 100000000>>
\* n / (n + 1e-8), and what is left of 1
Shrink(n) == RDiv(RInt(n), RAdd(RInt(n), RIDGE))
RidgeUnit(n) == RSub(RInt(1), Shrink(n))

\* the least-squares line through (x[i], y[i]), i in D, at each x[i]
OlsFit(y, x, D) ==
    LET n == Cardinality(D)
        xbar == RDiv(RSumInts(x, D), RInt(n))
        ybar == RDiv(RSumInts(y, D), RInt(n))
        xc == Eval([i \in D |-> RSub(x[i], xbar)])
        sxx == RSumInts(Eval([i \in D |-> RMul(xc[i], xc[i])]), D)
        sxy == RSumInts(Eval([i \in D |-> RMul(xc[i], y[i])]), D)
    IN  Eval([i \in D |-> RAdd(ybar, RDiv(RMul(xc[i], sxy), sxx))])

\* residuals = y - X @ beta, in units of RidgeUnit(n):
\* y - Shrink(n) fit = (y - fit) + RidgeUnit(n) fit
RidgeResidualUnits(y, x, D) ==
    LET fit == OlsFit(y, x, D)
        u == RidgeUnit(Cardinality(D))
    IN  Eval([i \in D |-> RAdd(RDiv(RSub(y[i], fit[i]), u), fit[i])])

\* the PRICE_WEIGHTED_INDEX column of a base table
PwiColumn(providers) == [i \in DOMAIN providers |-> providers[i].PRICE_WEIGHTED_INDEX]
OneSpecialty(providers) ==
    Cardinality({providers[i].BENCHMARK_SPECIALTY : i \in DOMAIN providers}) = 1

\* profiles with a covariate that is an increasing or decreasing linear
\* function of PRICE_WEIGHTED_INDEX
CorrelatedCovariates(providers) ==
    {[i \in DOMAIN providers |->
        RAdd(RInt(ab[1]), RMul(RInt(ab[2]), providers[i].PRICE_WEIGHTED_INDEX))] :
        ab \in {<<0, 1>>, <<3, 2>>, <<1000, -1>>}}

\* fit_and_residualize on such a table and profiles.  Median and std are
\* positively homogeneous, so the z-scores of the residuals are those of the
\* residuals in units of RidgeUnit(n): they are computed from the latter, whose
\* squares fit the integers, and ADJ_RESIDUAL is the unit times the value.
FitWithCovariate(providers, x) ==
    LET u == RidgeUnit(Len(providers))
        rows == FitAndResidualize(providers,
                    RidgeResidualUnits(PwiColumn(providers), x, DOMAIN providers))
    IN  {[r EXCEPT !.ADJ_RESIDUAL = RMul(u, @)] : r \in rows}

\* the summary rows: per era and code family present, the counts
AdjustmentSummary(pre_adjusted, post_adjusted) ==
    LET Results(era) == IF era = "pre2021" THEN pre_adjusted ELSE post_adjusted
        Sub(era, fam) == {r \in Results(era) : r.CODE_FAMILY = fam}
        Line(era, fam) ==
            [ERA |-> era,
             CODE_FAMILY |-> fam,
             TOTAL_PROVIDERS |-> Cardinality(Sub(era, fam)),
             RAW_OUTLIERS |-> Cardinality({r \in Sub(era, fam) : r.IS_OUTLIER}),
             ADJ_OUTLIERS |-> Cardinality({r \in Sub(era, fam) : r.ADJ_IS_OUTLIER}),
             PERSISTENT |-> Cardinality({r \in Sub(era, fam) : r.MOVEMENT = "PERSISTENT"}),
             EXPLAINED |-> Cardinality({r \in Sub(era, fam) : r.MOVEMENT = "EXPLAINED"}),
             UNMASKED |-> Cardinality({r \in Sub(era, fam) : r.MOVEMENT = "UNMASKED"})]
        present == {<<era, r.CODE_FAMILY>> : <<era, r>> \in
                      ({"pre2021"} \X pre_adjusted) \cup ({"post2021"} \X post_adjusted)}
    IN  SortRows({Line(ef[1], ef[2]) : ef \in present}, "ERA")

(***************************************************************************)
(* investigate_em_convergence.py                                           *)
(***************************************************************************)
SignalFiles ==
    {"individual_specialty_outliers.csv", "temporal_spikes.csv",
     "ghost_providers_impossible_volume.csv", "individual_oig_matches.csv",
     "temporal_disappearances.csv", "temporal_new_entrants.csv"}

\* a file that is not there taken as one that lists every focus provider
LoadSignalNpisMissingAsAll(sig, filename) ==
    IF ~sig[filename].present THEN FocusNPIs ELSE sig[filename].npis

\* load_signal_npis: the NPI set of a prior investigation's output; a file
\* that is not there is skipped and gives the empty set
LoadSignalNpis(sig, filename) ==
    IF ~sig[filename].present THEN {} ELSE sig[filename].npis

NoSignalFile == [present |-> FALSE, npis |-> {}]

\* the signal files found in the output directory: each of providers 1 and 2
\* carries one pattern of signals; a file nobody is in is absent or empty
SignalPatterns ==
    {{},
     {"individual_oig_matches.csv"},
     {"individual_oig_matches.csv", "ghost_providers_impossible_volume.csv"},
     {"individual_specialty_outliers.csv"},
     {"individual_specialty_outliers.csv", "temporal_spikes.csv"},
     {"temporal_new_entrants.csv"},
     {"individual_oig_matches.csv", "ghost_providers_impossible_volume.csv",
      "temporal_spikes.csv", "temporal_disappearances.csv"}}
FewPatterns ==
    {{},
     {"individual_oig_matches.csv", "ghost_providers_impossible_volume.csv"},
     {"individual_specialty_outliers.csv"}}
SignalDir(p1, p2, absent) ==
    [f \in SignalFiles |->
        IF f \notin p1 \cup p2 /\ absent THEN NoSignalFile
        ELSE [present |-> TRUE,
              npis |-> {n \in {1, 2} : f \in (IF n = 1 THEN p1 ELSE p2)} \cup {101}]]
SignalChoices ==
    {SignalDir(p1, p2, FALSE) : p1 \in SignalPatterns, p2 \in FewPatterns}
    \cup {SignalDir(p1, {}, TRUE) : p1 \in SignalPatterns}

B2I(b) == IF b THEN 1 ELSE 0

\* the signals of each evidence category (the module docstring; the E&M flag
\* itself and the cross-era flag derived from it are in no count)
SignalCategories ==
    [BILLING_ANOMALY |-> {"SIG_SPECIALTY_OUTLIER", "SIG_TEMPORAL_SPIKE"},
     FRAUD_INFRASTRUCTURE |-> {"SIG_GHOST_PROVIDER"},
     REGULATORY |-> {"SIG_OIG_EXCLUDED"},
     TEMPORAL_PATTERN |-> {"SIG_TEMPORAL_DISAPPEARANCE", "SIG_FAST_STARTER"}]

\* the per-category counts
\* the billing-anomaly count with the cross-era flag counted in it
BillingAnomalyCountWithCrossEra(r) ==
    B2I(r.SIG_SPECIALTY_OUTLIER) + B2I(r.SIG_TEMPORAL_SPIKE) + B2I(r.SIG_CROSS_ERA)
BillingAnomalyCount(r) == B2I(r.SIG_SPECIALTY_OUTLIER) + B2I(r.SIG_TEMPORAL_SPIKE)
FraudInfraCount(r) == B2I(r.SIG_GHOST_PROVIDER)
RegulatoryCount(r) == B2I(r.SIG_OIG_EXCLUDED)
TemporalCount(r) == B2I(r.SIG_TEMPORAL_DISAPPEARANCE) + B2I(r.SIG_FAST_STARTER)

\* the type count as the plain sum of the category counts
SignalTypeCountRawSum(billing, infra, regulatory, temporal) ==
    billing + infra + regulatory + temporal

\* SIGNAL_TYPE_COUNT: the categories with a count > 0
SignalTypeCount(billing, infra, regulatory, temporal) ==
    B2I(billing > 0) + B2I(infra > 0) + B2I(regulatory > 0) + B2I(temporal > 0)

\* the total with the OIG column left out of the sum
TotalSignalCountWithoutOig(r) ==
    B2I(r.SIG_SPECIALTY_OUTLIER) + B2I(r.SIG_TEMPORAL_SPIKE)
    + B2I(r.SIG_GHOST_PROVIDER)
    + B2I(r.SIG_TEMPORAL_DISAPPEARANCE) + B2I(r.SIG_FAST_STARTER)
    + B2I(r.SIG_CROSS_ERA)

\* TOTAL_SIGNAL_COUNT: the seven signal columns
TotalSignalCount(r) ==
    B2I(r.SIG_SPECIALTY_OUTLIER) + B2I(r.SIG_TEMPORAL_SPIKE)
    + B2I(r.SIG_GHOST_PROVIDER) + B2I(r.SIG_OIG_EXCLUDED)
    + B2I(r.SIG_TEMPORAL_DISAPPEARANCE) + B2I(r.SIG_FAST_STARTER)
    + B2I(r.SIG_CROSS_ERA)

\* the selection without the is_in filter of pre_only
BestOutlierRowsWithoutIsIn(df, era_label, excluded) ==
    LET out == {df[i] : i \in {j \in DOMAIN df : df[j].IS_OUTLIER}}
        npis == {r.NPI : r \in out}
        Cands(n) == {r \in out : /\ r.NPI = n
                                 /\ \A q \in out : q.NPI = n =>
                                        RGe(r.EST_EXCESS_REVENUE_CLIPPED,
                                            q.EST_EXCESS_REVENUE_CLIPPED)}
    IN  {{[NPI |-> pick[n].NPI,
           BENCHMARK_SPECIALTY |-> pick[n].BENCHMARK_SPECIALTY,
           CODE_FAMILY |-> pick[n].CODE_FAMILY,
           TOTAL_EM_CLAIMS |-> pick[n].TOTAL_EM_CLAIMS,
           Z_SCORE |-> pick[n].Z_SCORE,
           EST_EXCESS_REVENUE_CLIPPED |-> pick[n].EST_EXCESS_REVENUE_CLIPPED,
           PRIMARY_ERA |-> era_label] : n \in npis} :
          pick \in {f \in [npis -> out] : \A n \in npis : f[n] \in Cands(n)}}

\* .filter(IS_OUTLIER).sort(EST_EXCESS_REVENUE_CLIPPED, descending)
\* .unique(subset NPI, keep="first"): per NPI one flagged row of the largest
\* clipped excess; among equal ones the sort leaves the choice open.  The
\* result is a set of possible row sets.
BestOutlierRows(df, era_label, excluded) ==
    LET out == {df[i] : i \in {j \in DOMAIN df : df[j].IS_OUTLIER /\ df[j].NPI \notin excluded}}
        npis == {r.NPI : r \in out}
        Cands(n) == {r \in out : /\ r.NPI = n
                                 /\ \A q \in out : q.NPI = n =>
                                        RGe(r.EST_EXCESS_REVENUE_CLIPPED,
                                            q.EST_EXCESS_REVENUE_CLIPPED)}
    IN  {{[NPI |-> pick[n].NPI,
           BENCHMARK_SPECIALTY |-> pick[n].BENCHMARK_SPECIALTY,
           CODE_FAMILY |-> pick[n].CODE_FAMILY,
           TOTAL_EM_CLAIMS |-> pick[n].TOTAL_EM_CLAIMS,
           Z_SCORE |-> pick[n].Z_SCORE,
           EST_EXCESS_REVENUE_CLIPPED |-> pick[n].EST_EXCESS_REVENUE_CLIPPED,
           PRIMARY_ERA |-> era_label] : n \in npis} :
          pick \in {f \in [npis -> out] : \A n \in npis : f[n] \in Cands(n)}}

\* add_signal (six times), the cross-era flag and the count columns
WithSignals(b, sig, cross_era) ==
    LET s1 == [SIG_SPECIALTY_OUTLIER |->
                   b.NPI \in LoadSignalNpis(sig, "individual_specialty_outliers.csv"),
               SIG_TEMPORAL_SPIKE |->
                   b.NPI \in LoadSignalNpis(sig, "temporal_spikes.csv"),
               SIG_GHOST_PROVIDER |->
                   b.NPI \in LoadSignalNpis(sig, "ghost_providers_impossible_volume.csv"),
               SIG_OIG_EXCLUDED |->
                   b.NPI \in LoadSignalNpis(sig, "individual_oig_matches.csv"),
               SIG_TEMPORAL_DISAPPEARANCE |->
                   b.NPI \in LoadSignalNpis(sig, "temporal_disappearances.csv"),
               SIG_FAST_STARTER |->
                   b.NPI \in LoadSignalNpis(sig, "temporal_new_entrants.csv"),
               SIG_CROSS_ERA |-> b.NPI \in {cross_era[i].NPI : i \in DOMAIN cross_era}]
        s2 == [BILLING_ANOMALY_COUNT |-> BillingAnomalyCount(s1),
               FRAUD_INFRA_COUNT |-> FraudInfraCount(s1),
               REGULATORY_COUNT |-> RegulatoryCount(s1),
               TEMPORAL_COUNT |-> TemporalCount(s1)]
        s3 == [SIGNAL_TYPE_COUNT |->
                   SignalTypeCount(s2.BILLING_ANOMALY_COUNT, s2.FRAUD_INFRA_COUNT,
                                   s2.REGULATORY_COUNT, s2.TEMPORAL_COUNT),
               TOTAL_SIGNAL_COUNT |-> TotalSignalCount(s1)]
    IN  b @@ s1 @@ s2 @@ s3

\* every arrangement of the rows of S in a sequence
Arrangements(S) ==
    {t \in [1 .. Cardinality(S) -> S] : \A i, j \in DOMAIN t : i # j => t[i] # t[j]}

\* the sort on SIGNAL_TYPE_COUNT in place of TOTAL_SIGNAL_COUNT
SortedByTypeCount(t) ==
    \A i, j \in DOMAIN t : i < j => t[i].SIGNAL_TYPE_COUNT >= t[j].SIGNAL_TYPE_COUNT

\* the sort without descending=True
SortedByTotalAscending(t) ==
    \A i, j \in DOMAIN t : i < j => t[i].TOTAL_SIGNAL_COUNT <= t[j].TOTAL_SIGNAL_COUNT

\* conv.sort("TOTAL_SIGNAL_COUNT", descending=True): the key is the only
\* order the sort gives; rows with equal keys may come out in any order
SortedByTotal(t) ==
    \A i, j \in DOMAIN t : i < j => t[i].TOTAL_SIGNAL_COUNT >= t[j].TOTAL_SIGNAL_COUNT

\* main: the possible convergence tables for the three core tables and the signals
ConvergenceTables(post, pre, cross_era, sig) ==
    {t \in UNION {Arrangements({WithSignals(b, sig, cross_era) : b \in po \cup pr}) :
                    <<po, pr>> \in {x \in BestOutlierRows(post, "post2021", {})
                                         \X BestOutlierRows(pre, "pre2021",
                                                {post[i].NPI : i \in {j \in DOMAIN post : post[j].IS_OUTLIER}}) :
                                      TRUE}} :
        SortedByTotal(t)}

\* the filter that also keeps the rows without any signal
FlaggedIncludingZero(conv) == SelectSeq(conv, LAMBDA r : r.TOTAL_SIGNAL_COUNT >= 0)

\* flagged = conv.filter(TOTAL_SIGNAL_COUNT > 0)
Flagged(conv) == SelectSeq(conv, LAMBDA r : r.TOTAL_SIGNAL_COUNT > 0)

(***************************************************************************)
(* Actions: the snapshot, then investigate_em_upcoding.main                *)
(***************************************************************************)
Init ==
    /\ loaded = {}
    /\ signals = [f \in SignalFiles |-> NoSignalFile]
    /\ files = [f \in FileNames |-> Missing]
    /\ pc = "load"

\* one more billing history enters the snapshot before the run starts
Load(c) ==
    /\ pc = "load"
    /\ <<c[1], c[2]>> \notin LoadedSlots(loaded)
    /\ Cardinality(LoadedSlots(loaded)) < MaxLoads
    /\ loaded' = loaded \cup HistoryRows(c[1], c[2], c[3])
    /\ UNCHANGED <<signals, files, pc>>

\* main starts: data is loaded, em_base is built
StartBase ==
    /\ pc = "load"
    /\ pc' = "pre2021"
    /\ UNCHANGED <<loaded, signals, files>>

\* main: pre = run_era_analysis(em_base, "pre2021", ...)
RunPre ==
    /\ pc = "pre2021"
    /\ files' = WriteAll(files, RunEraAnalysisWrites(EmBase(Medicaid(loaded)), "pre2021"))
    /\ pc' = "post2021"
    /\ UNCHANGED <<loaded, signals>>

\* main: post = run_era_analysis(em_base, "post2021", ...)
RunPost ==
    /\ pc = "post2021"
    /\ files' = WriteAll(files, RunEraAnalysisWrites(EmBase(Medicaid(loaded)), "post2021"))
    /\ pc' = "cross"
    /\ UNCHANGED <<loaded, signals>>

\* main: cross_era_summary(pre, post); skipped when an era returned None
CrossEra ==
    /\ pc = "cross"
    /\ files' = IF ~files[EraFile("pre2021")].present \/ ~files[EraFile("post2021")].present
                THEN files
                ELSE WriteAll(files, {<<CrossEraFile,
                         CrossEraSummary(files[EraFile("pre2021")].rows, files[EraFile("post2021")].rows)>>})
    /\ pc' = "base_done"
    /\ UNCHANGED <<loaded, signals>>

(***************************************************************************)
(* Actions: investigate_em_adjusted.main, after the base script            *)
(***************************************************************************)
\* one pass of the era loop: read the base table (the script dies when it is
\* not there), fit, write the adjusted table; after the second pass the
\* summary is written from the results of both
AdjustEra(era, from, to) ==
    /\ pc = from
    /\ \/ /\ ~files[EraFile(era)].present
          /\ pc' = "adj_failed"
          /\ UNCHANGED <<loaded, signals, files>>
       \/ /\ files[EraFile(era)].present
          /\ \E res \in ResidualChoices(files[EraFile(era)].rows) :
              \E adjusted \in {FitAndResidualize(files[EraFile(era)].rows, res)} :
                LET table == <<AdjustedFile(era), SortRows(adjusted, "ADJ_Z_SCORE")>>
                IN  files' = WriteAll(files,
                        IF era = "post2021"
                        THEN {table,
                              <<AdjustmentSummaryFile,
                                AdjustmentSummary(
                                    SeqRange(files[AdjustedFile("pre2021")].rows), adjusted)>>}
                        ELSE {table})
          /\ pc' = to
          /\ UNCHANGED <<loaded, signals>>

AdjustPre == AdjustEra("pre2021", "base_done", "adj_post2021")
AdjustPost == AdjustEra("post2021", "adj_post2021", "adj_done")

(***************************************************************************)
(* Actions: investigate_em_convergence.main, after the base script         *)
(***************************************************************************)
CoreFiles == {EraFile("post2021"), EraFile("pre2021"), CrossEraFile}

\* read_csv of a core table that is not there raises before any signal is
\* loaded and before anything is written; with no outlier at all the summary
\* after the two writes divides flagged.height by conv.height = 0 and raises
Converge ==
    /\ pc = "base_done"
    /\ \/ /\ \E f \in CoreFiles : ~files[f].present
          /\ pc' = "conv_failed"
          /\ UNCHANGED <<loaded, signals, files>>
       \/ /\ \A f \in CoreFiles : files[f].present
          /\ \E sig \in SignalChoices :
                /\ signals' = sig
                /\ \E conv \in ConvergenceTables(files[EraFile("post2021")].rows,
                                                   files[EraFile("pre2021")].rows,
                                                   files[CrossEraFile].rows, sig) :
                      /\ files' = WriteAll(files, {<<ConvergenceFile, conv>>,
                                                   <<FlaggedFile, Flagged(conv)>>})
                      /\ pc' = IF conv = <<>> THEN "conv_crashed" ELSE "conv_done"
          /\ UNCHANGED loaded

Next ==
    \/ \E c \in LoadChoices : Load(c)
    \/ StartBase
    \/ RunPre
    \/ RunPost
    \/ CrossEra
    \/ AdjustPre
    \/ AdjustPost
    \/ Converge

Spec == Init /\ [][Next]_vars

\* investigate_em_upcoding.main alone: the snapshot, the two eras and the
\* cross-era summary, with neither of the later scripts run
BaseNext ==
    \/ \E c \in LoadChoices : Load(c)
    \/ StartBase
    \/ RunPre
    \/ RunPost
    \/ CrossEra

BaseSpec == Init /\ [][BaseNext]_vars

\* the same programs run on a snapshot that holds the 26-provider cohort
CohortInit ==
    /\ loaded = CohortRows
    /\ signals = [f \in SignalFiles |-> NoSignalFile]
    /\ files = [f \in FileNames |-> Missing]
    /\ pc = "load"

CohortNext ==
    \/ \E c \in CohortLoadChoices : Load(c)
    \/ StartBase
    \/ RunPre
    \/ RunPost
    \/ CrossEra
    \/ AdjustPre
    \/ AdjustPost
    \/ Converge

CohortSpec == CohortInit /\ [][CohortNext]_vars

\* the base script and the adjusted script run on a snapshot that holds the
\* 21-provider cohort, with profiles in which one covariate is perfectly
\* correlated with PRICE_WEIGHTED_INDEX
FitInit ==
    /\ loaded \in FitSnapshots
    /\ signals = [f \in SignalFiles |-> NoSignalFile]
    /\ files = [f \in FileNames |-> Missing]
    /\ pc = "load"

\* one pass of the era loop of investigate_em_adjusted.main with such profiles
AdjustEraCorrelated(era, from, to) ==
    /\ pc = from
    /\ \/ /\ ~files[EraFile(era)].present
          /\ pc' = "adj_failed"
          /\ UNCHANGED <<loaded, signals, files>>
       \/ /\ files[EraFile(era)].present
          /\ OneSpecialty(files[EraFile(era)].rows)
          /\ \E x \in CorrelatedCovariates(files[EraFile(era)].rows) :
              \E adjusted \in {FitWithCovariate(files[EraFile(era)].rows, x)} :
                LET table == <<AdjustedFile(era), SortRows(adjusted, "ADJ_Z_SCORE")>>
                IN  files' = WriteAll(files,
                        IF era = "post2021"
                        THEN {table,
                              <<AdjustmentSummaryFile,
                                AdjustmentSummary(
                                    SeqRange(files[AdjustedFile("pre2021")].rows), adjusted)>>}
                        ELSE {table})
          /\ pc' = to
          /\ UNCHANGED <<loaded, signals>>

AdjustPreCorrelated == AdjustEraCorrelated("pre2021", "base_done", "adj_post2021")
AdjustPostCorrelated == AdjustEraCorrelated("post2021", "adj_post2021", "adj_done")

FitNext ==
    \/ StartBase
    \/ RunPre
    \/ RunPost
    \/ CrossEra
    \/ AdjustPreCorrelated
    \/ AdjustPostCorrelated

FitSpec == FitInit /\ [][FitNext]_vars

(***************************************************************************)
(* Properties of the per-family outlier tables                             *)
(***************************************************************************)
RAbs(a) == <<Abs(a[1]), a[2]>>

\* the rows analyze_code_family wrote for one family and era, and all of them
FamilyRows(fam, era) == SeqRange(files[FamilyFile(fam, era)].rows)
AnalysisRows == UNION {FamilyRows(fe[1], fe[2]) : fe \in Families \X Eras}

\* the providers of one specialty that meet the MIN_CLAIMS floor in one family
\* and era, counted from the claim snapshot
FamilyCodes(fam) == IF fam = "new" THEN NEW_CODES ELSE EST_CODES
QualifyingMembers(fam, era, specialty) ==
    LET data == {r \in EraData(EmBase(Medicaid(loaded)), era) :
                    r.HCPCS_CODE \in FamilyCodes(fam)}
        Claims(n) == LET rs == {r \in data : r.NPI = n}
                     IN  SumF([r \in rs |-> r.TOTAL_CLAIMS], rs)
    IN  {n \in {r.NPI : r \in data} :
            BenchmarkSpecialty(n) = specialty /\ Claims(n) >= MIN_CLAIMS}

\* C1: in every row of a per-family outlier table, IS_OUTLIER implies
\* Z_SCORE >= Z_THRESHOLD and |ABS_DEVIATION| >= MIN_ABS_DEV
C1_OutlierImpliesThresholds ==
    \A r \in AnalysisRows :
        r.IS_OUTLIER => /\ ZGe(r.Z_SCORE, Z_THRESHOLD)
                        /\ RGe(RAbs(r.ABS_DEVIATION), MIN_ABS_DEV)

\* a table with a flagged row and with an unflagged row whose z-score meets
\* the threshold (the converse fails)
C1_Witness ==
    \E r, q \in AnalysisRows :
        r.IS_OUTLIER /\ ~q.IS_OUTLIER /\ ZGe(q.Z_SCORE, Z_THRESHOLD)

\* C2: every row of a per-family table carries PEER_COUNT >= MIN_PEERS, the
\* count is the number of qualifying providers of the row's specialty in the
\* snapshot, and so no provider of a smaller cohort is in the table
C2_PeerFloor ==
    \A fe \in Families \X Eras :
        \A s \in {r.BENCHMARK_SPECIALTY : r \in FamilyRows(fe[1], fe[2])} :
            LET members == Cardinality(QualifyingMembers(fe[1], fe[2], s))
            IN  /\ members >= MIN_PEERS
                /\ \A r \in FamilyRows(fe[1], fe[2]) :
                     r.BENCHMARK_SPECIALTY = s => r.PEER_COUNT = members

\* a written table next to a cohort of the same family and era that has
\* qualifying providers, fewer than MIN_PEERS, and none of them in the table
C2_Witness ==
    \E fe \in Families \X Eras :
        /\ FamilyRows(fe[1], fe[2]) # {}
        /\ \E s \in {"A", "B"} :
             /\ QualifyingMembers(fe[1], fe[2], s) # {}
             /\ Cardinality(QualifyingMembers(fe[1], fe[2], s)) < MIN_PEERS
             /\ \A r \in FamilyRows(fe[1], fe[2]) : r.BENCHMARK_SPECIALTY # s

\* C3: a row whose cohort STD_PWI is 0 has Z_SCORE exactly 0 (a number, not
\* the NaN of a 0 / 0) and is not IS_OUTLIER
C3_ZeroStdZeroZ ==
    \A r \in AnalysisRows :
        r.STD_PWI = RZero => r.Z_SCORE = RZero /\ ~r.IS_OUTLIER

\* a written row of a cohort whose members all have the same index
C3_Witness == \E r \in AnalysisRows : r.STD_PWI = RZero

(***************************************************************************)
(* Properties of the cross-era summary                                     *)
(***************************************************************************)
EraRows(era) == SeqRange(files[EraFile(era)].rows)
OutlierNPIs(era) == {r.NPI : r \in {q \in EraRows(era) : q.IS_OUTLIER}}
SummaryRows == SeqRange(files[CrossEraFile].rows)

\* C7: the cross-era summary holds a provider exactly when the provider has an
\* IS_OUTLIER row in the pre-2021 table and one in the post-2021 table, and
\* no NPI is in two of its rows
C7_SummaryIffBothEras ==
    files[CrossEraFile].present =>
        /\ {r.NPI : r \in SummaryRows} = OutlierNPIs("pre2021") \cap OutlierNPIs("post2021")
        /\ \A i, j \in DOMAIN files[CrossEraFile].rows :
             files[CrossEraFile].rows[i].NPI = files[CrossEraFile].rows[j].NPI => i = j

\* a summary with a provider flagged in two families of one era, while
\* another provider is flagged in one era only and is left out
C7_Witness ==
    /\ \E r \in SummaryRows :
         \E e \in Eras : Cardinality({q \in EraRows(e) : q.NPI = r.NPI /\ q.IS_OUTLIER}) = 2
    /\ (OutlierNPIs("pre2021") \cup OutlierNPIs("post2021"))
         \ (OutlierNPIs("pre2021") \cap OutlierNPIs("post2021")) # {}

\* the largest Z_SCORE and the summed clipped excess of a set of era rows
MaxZ(rows) == RMaxF([r \in rows |-> r.Z_SCORE], rows)
SumClipped(rows) == RSumF([r \in rows |-> r.EST_EXCESS_REVENUE_CLIPPED], rows)
ProviderRows(era, npi) == {q \in EraRows(era) : q.NPI = npi}
FlaggedRows(era, npi) == {q \in EraRows(era) : q.NPI = npi /\ q.IS_OUTLIER}

\* C8 as claimed: each era's z-score is the maximum and each era's excess the
\* clipped sum over ALL the provider's code-family rows of the era
C8_AggregatesOverAllRows ==
    \A r \in SummaryRows :
        /\ r.PRE2021_Z_SCORE = MaxZ(ProviderRows("pre2021", r.NPI))
        /\ r.PRE2021_EXCESS = SumClipped(ProviderRows("pre2021", r.NPI))
        /\ r.POST2021_Z_SCORE = MaxZ(ProviderRows("post2021", r.NPI))
        /\ r.POST2021_EXCESS = SumClipped(ProviderRows("post2021", r.NPI))

\* C8 amended: each era's z-score is the maximum and each era's excess the
\* clipped sum over the provider's IS_OUTLIER code-family rows of the era
C8_AggregatesOverFlaggedRows ==
    \A r \in SummaryRows :
        /\ r.PRE2021_Z_SCORE = MaxZ(FlaggedRows("pre2021", r.NPI))
        /\ r.PRE2021_EXCESS = SumClipped(FlaggedRows("pre2021", r.NPI))
        /\ r.POST2021_Z_SCORE = MaxZ(FlaggedRows("post2021", r.NPI))
        /\ r.POST2021_EXCESS = SumClipped(FlaggedRows("post2021", r.NPI))

\* a summary row of a provider that has, in one era, a flagged row and an
\* unflagged row with a larger z-score and a positive clipped excess
C8_Witness ==
    \E r \in SummaryRows : \E e \in Eras :
        \E q \in ProviderRows(e, r.NPI) :
            /\ ~q.IS_OUTLIER
            /\ RGt(q.EST_EXCESS_REVENUE_CLIPPED, RZero)
            /\ RGt(q.Z_SCORE, MaxZ(FlaggedRows(e, r.NPI)))

(***************************************************************************)
(* Properties of the adjusted tables                                       *)
(***************************************************************************)
AdjustedRows == UNION {SeqRange(files[AdjustedFile(e)].rows) : e \in Eras}

\* C4: every row of an adjusted table has one MOVEMENT value of the four, and
\* the value is fixed by (IS_OUTLIER, ADJ_IS_OUTLIER): both <=> PERSISTENT, raw
\* only <=> EXPLAINED, adjusted only <=> UNMASKED, neither <=> NORMAL
C4_MovementTwoByTwo ==
    \A r \in AdjustedRows :
        /\ r.MOVEMENT \in {"PERSISTENT", "EXPLAINED", "UNMASKED", "NORMAL"}
        /\ r.MOVEMENT = "PERSISTENT" <=> (r.IS_OUTLIER /\ r.ADJ_IS_OUTLIER)
        /\ r.MOVEMENT = "EXPLAINED" <=> (r.IS_OUTLIER /\ ~r.ADJ_IS_OUTLIER)
        /\ r.MOVEMENT = "UNMASKED" <=> (~r.IS_OUTLIER /\ r.ADJ_IS_OUTLIER)
        /\ r.MOVEMENT = "NORMAL" <=> (~r.IS_OUTLIER /\ ~r.ADJ_IS_OUTLIER)

\* adjusted tables in which all four values occur
C4_Witness ==
    \A m \in {"PERSISTENT", "EXPLAINED", "UNMASKED", "NORMAL"} :
        \E r \in AdjustedRows : r.MOVEMENT = m

(***************************************************************************)
(* Properties of the convergence table                                     *)
(***************************************************************************)
Conv == files[ConvergenceFile].rows
ConvRows == SeqRange(Conv)

\* the categories a row has a true signal in, and its true signals in one
CategoriesOf(r) ==
    {c \in DOMAIN SignalCategories : \E sg \in SignalCategories[c] : r[sg]}
SignalsIn(r, c) == {sg \in SignalCategories[c] : r[sg]}

\* C5: in every convergence row SIGNAL_TYPE_COUNT is at most the number of
\* categories (4), and with at least one signal TOTAL_SIGNAL_COUNT is at
\* least SIGNAL_TYPE_COUNT
C5_TypeCountBounds ==
    \A r \in ConvRows :
        /\ r.SIGNAL_TYPE_COUNT <= Cardinality(DOMAIN SignalCategories)
        /\ (r.SIG_CROSS_ERA \/ CategoriesOf(r) # {}) =>
                r.TOTAL_SIGNAL_COUNT >= r.SIGNAL_TYPE_COUNT

\* a row with a signal in each of the four categories
C5_Witness ==
    \E r \in ConvRows : Cardinality(CategoriesOf(r)) = 4 /\ r.SIGNAL_TYPE_COUNT = 4

\* C6: SIGNAL_TYPE_COUNT is the number of categories with a true signal, so
\* rows with the same set of categories have the same SIGNAL_TYPE_COUNT
\* whatever the number of true signals in each
C6_TypeCountIsCategoryCount ==
    \A r \in ConvRows :
        /\ r.SIGNAL_TYPE_COUNT = Cardinality(CategoriesOf(r))
        /\ \A q \in ConvRows :
             CategoriesOf(q) = CategoriesOf(r) => q.SIGNAL_TYPE_COUNT = r.SIGNAL_TYPE_COUNT

\* two rows of one table with the same category, one signal in it for the one
\* and two for the other
C6_Witness ==
    \E r, q \in ConvRows :
        /\ CategoriesOf(r) = {"BILLING_ANOMALY"} /\ CategoriesOf(q) = {"BILLING_ANOMALY"}
        /\ Cardinality(SignalsIn(r, "BILLING_ANOMALY")) = 1
        /\ Cardinality(SignalsIn(q, "BILLING_ANOMALY")) = 2

\* the category precedence regulatory > infrastructure > billing > temporal
\* as an order on rows: q ranks strictly before r
PrecedenceBefore(q, r) ==
    \/ q.REGULATORY_COUNT > r.REGULATORY_COUNT
    \/ /\ q.REGULATORY_COUNT = r.REGULATORY_COUNT
       /\ \/ q.FRAUD_INFRA_COUNT > r.FRAUD_INFRA_COUNT
          \/ /\ q.FRAUD_INFRA_COUNT = r.FRAUD_INFRA_COUNT
             /\ \/ q.BILLING_ANOMALY_COUNT > r.BILLING_ANOMALY_COUNT
                \/ /\ q.BILLING_ANOMALY_COUNT = r.BILLING_ANOMALY_COUNT
                   /\ q.TEMPORAL_COUNT > r.TEMPORAL_COUNT

\* C9 as claimed: the table is in TOTAL_SIGNAL_COUNT descending order and rows
\* with equal totals are in category-precedence order
C9_SortedWithPrecedence ==
    \A i, j \in DOMAIN Conv :
        i < j => /\ Conv[i].TOTAL_SIGNAL_COUNT >= Conv[j].TOTAL_SIGNAL_COUNT
                 /\ Conv[i].TOTAL_SIGNAL_COUNT = Conv[j].TOTAL_SIGNAL_COUNT =>
                        ~PrecedenceBefore(Conv[j], Conv[i])

\* C9 amended: the table is in TOTAL_SIGNAL_COUNT descending order (the order
\* of rows with equal totals is left open)
C9_SortedByTotalDescending ==
    \A i, j \in DOMAIN Conv :
        i < j => Conv[i].TOTAL_SIGNAL_COUNT >= Conv[j].TOTAL_SIGNAL_COUNT

\* a table of two rows with different totals
C9_Witness ==
    \E i, j \in DOMAIN Conv : Conv[i].TOTAL_SIGNAL_COUNT > Conv[j].TOTAL_SIGNAL_COUNT

\* a row whose true signals are exactly two, in two categories
TwoCategoriesOneEach(r) ==
    /\ Cardinality(CategoriesOf(r)) = 2
    /\ \A c \in CategoriesOf(r) : Cardinality(SignalsIn(r, c)) = 1
    /\ ~r.SIG_CROSS_ERA

\* C10 as claimed: a provider with one signal in each of exactly two categories
\* has SIGNAL_TYPE_COUNT = 2 and TOTAL_SIGNAL_COUNT = 2 and comes before every
\* provider with SIGNAL_TYPE_COUNT = 1 and three signals in total
C10_TwoCategoriesRankedAbove ==
    \A i, j \in DOMAIN Conv :
        TwoCategoriesOneEach(Conv[i]) =>
            /\ Conv[i].SIGNAL_TYPE_COUNT = 2
            /\ Conv[i].TOTAL_SIGNAL_COUNT = 2
            /\ (Conv[j].SIGNAL_TYPE_COUNT = 1 /\ Conv[j].TOTAL_SIGNAL_COUNT = 3) => i < j

\* C10 amended: such a provider has SIGNAL_TYPE_COUNT = 2 and
\* TOTAL_SIGNAL_COUNT = 2 and comes after every provider with
\* SIGNAL_TYPE_COUNT = 1 and three signals in total
C10_TwoCategoriesRankedBelow ==
    \A i, j \in DOMAIN Conv :
        TwoCategoriesOneEach(Conv[i]) =>
            /\ Conv[i].SIGNAL_TYPE_COUNT = 2
            /\ Conv[i].TOTAL_SIGNAL_COUNT = 2
            /\ (Conv[j].SIGNAL_TYPE_COUNT = 1 /\ Conv[j].TOTAL_SIGNAL_COUNT = 3) => j < i

\* a table with a two-category provider of total 2 and a single-category
\* provider of total 3
C10_Witness ==
    \E i, j \in DOMAIN Conv :
        /\ TwoCategoriesOneEach(Conv[i])
        /\ Conv[j].SIGNAL_TYPE_COUNT = 1 /\ Conv[j].TOTAL_SIGNAL_COUNT = 3

(***************************************************************************)
(* Re-running a stage on the files and signals it has read                 *)
(***************************************************************************)
\* the tables a run of the convergence script can write from the core tables
\* in the output directory and the signal files it found
RerunTables ==
    ConvergenceTables(files[EraFile("post2021")].rows, files[EraFile("pre2021")].rows,
                      files[CrossEraFile].rows, signals)

\* C11 as claimed: once the convergence table is written, a run on the
\* unchanged core tables and signal files can write only that same table,
\* rows and row order
C11_RerunWritesSameTable ==
    pc = "conv_done" => RerunTables = {Conv}

(***************************************************************************)
(* The 26-provider cohort                                                  *)
(***************************************************************************)
\* the rows of the 26th provider in the established-patient table of post-2021
TopRows == {r \in FamilyRows("est", "post2021") : r.NPI = TopNPI}
\* the established-patient table of post-2021 is written
CohortAnalysed == files[FamilyFile("est", "post2021")].present

\* C12: the 26th provider (index 500, 1,000 claims, cohort median 100) is in
\* the table, is IS_OUTLIER, and its EST_EXCESS_REVENUE is (500 - 100) x 1,000
C12_TopProviderFlagged ==
    CohortAnalysed =>
        /\ TopRows # {}
        /\ \A r \in TopRows :
             /\ r.PEER_COUNT = 26 /\ r.TOTAL_EM_CLAIMS = 1000
             /\ r.PRICE_WEIGHTED_INDEX = RInt(500) /\ r.MEDIAN_PWI = RInt(100)
             /\ r.IS_OUTLIER
             /\ r.EST_EXCESS_REVENUE = RInt(400000)

\* the table with the row of the 26th provider
C12_Witness == CohortAnalysed /\ \E r \in TopRows : r.PRICE_WEIGHTED_INDEX = RInt(500)

\* the index values of the 25 other members, their standard deviation (as its
\* square) and the standard deviation of all 26
OthersPwi == [n \in CohortNPIs \ {TopNPI} |-> RInt(IF n <= 210 THEN 88 ELSE IF n <= 215 THEN 100 ELSE 111)]
AllPwi == [n \in CohortNPIs |-> IF n = TopNPI THEN RInt(500) ELSE OthersPwi[n]]
OthersStdSq == StdSq(OthersPwi, CohortNPIs \ {TopNPI})
AllStdSq == StdSq(AllPwi, CohortNPIs)

\* C13 as claimed: the 26th provider's Z_SCORE is its deviation of 400 over
\* the standard deviation of the other 25 (about 10), about 40: between 35
\* and 45
C13_TopZAboutForty ==
    \A r \in TopRows :
        /\ r.Z_SCORE = RDiv(SignedSq(RInt(400)), OthersStdSq)
        /\ ZGe(r.Z_SCORE, RInt(35)) /\ ~ZGe(r.Z_SCORE, RInt(45))

\* C13 amended: the Z_SCORE is the deviation of 400 over the standard
\* deviation of all 26 members, the provider itself among them (about 79):
\* about 5.05, between 5 and 5.1
C13_TopZAboutFive ==
    \A r \in TopRows :
        /\ r.STD_PWI = AllStdSq
        /\ r.Z_SCORE = RDiv(SignedSq(RInt(400)), AllStdSq)
        /\ ZGe(r.Z_SCORE, RInt(5)) /\ ~ZGe(r.Z_SCORE, <<51, 10>>)

\* the row of the 26th provider, in a cohort whose other 25 members have a
\* standard deviation between 10 and 11
C13_Witness ==
    /\ \E r \in TopRows : r.PEER_COUNT = 26 /\ r.ABS_DEVIATION = RInt(400)
    /\ RGe(OthersStdSq, RInt(100)) /\ RLt(OthersStdSq, RInt(121))

\* C14 as claimed: with a covariate perfectly correlated with
\* PRICE_WEIGHTED_INDEX in the regression, every raw outlier of the adjusted
\* tables has an ADJ_RESIDUAL within 1/1000 of zero, is not ADJ_IS_OUTLIER
\* and has MOVEMENT EXPLAINED
C14_CorrelatedCovariateExplains ==
    \A r \in AdjustedRows :
        r.IS_OUTLIER =>
            /\ RLt(RAbs(r.ADJ_RESIDUAL), <<1, 1000>>)
            /\ ~r.ADJ_IS_OUTLIER
            /\ r.MOVEMENT = "EXPLAINED"

\* the claim rows of one era in the snapshot, the claims summed over the rows
\* of one code, and the price table run_era_analysis computes for the era
SliceRows(era) == {r \in Medicaid(loaded) : InEra(r.CLAIM_FROM_MONTH, era)}
SliceClaims(era, code) ==
    LET rs == {r \in SliceRows(era) : r.HCPCS_CODE = code}
    IN  SumF([r \in rs |-> r.TOTAL_CLAIMS], rs)
EraPrices(era) == ComputeNationalPrices(EraData(EmBase(Medicaid(loaded)), era))
UnbilledCodes(era) ==
    {c \in {r.HCPCS_CODE : r \in SliceRows(era)} : SliceClaims(era, c) = 0}

WrittenProviderRows == AnalysisRows \cup UNION {SeqRange(files[EraFile(e)].rows) : e \in Eras}

\* C16: in every written provider row EST_EXCESS_REVENUE is ABS_DEVIATION x
\* TOTAL_EM_CLAIMS with its sign (negative for a provider below the median),
\* and EST_EXCESS_REVENUE_CLIPPED, written next to it, is max(0, that): a
\* downcoder has a negative EST_EXCESS_REVENUE next to a clipped 0, a row
\* with no excess has 0 in both
C16_SignedAndClippedExcess ==
    \A r \in WrittenProviderRows :
        /\ r.EST_EXCESS_REVENUE = RMul(r.ABS_DEVIATION, RInt(r.TOTAL_EM_CLAIMS))
        /\ r.EST_EXCESS_REVENUE_CLIPPED = RMax(RZero, r.EST_EXCESS_REVENUE)
        /\ Sgn(r.EST_EXCESS_REVENUE[1]) = Sgn(r.ABS_DEVIATION[1])
        /\ RLt(r.ABS_DEVIATION, RZero) =>
              /\ RLt(r.EST_EXCESS_REVENUE, RZero)
              /\ r.EST_EXCESS_REVENUE_CLIPPED = RZero

\* a table with a downcoder's row (negative excess, clipped 0) and a row of
\* zero excess
C16_Witness ==
    \E q, r \in WrittenProviderRows :
        /\ RLt(q.EST_EXCESS_REVENUE, RZero) /\ q.EST_EXCESS_REVENUE_CLIPPED = RZero
        /\ r.EST_EXCESS_REVENUE = RZero /\ r.EST_EXCESS_REVENUE_CLIPPED = RZero

\* the rows of a written table are in non-increasing EST_EXCESS_REVENUE order
ExcessNonIncreasing(t) ==
    \A i, j \in DOMAIN t : i < j => RGe(t[i].EST_EXCESS_REVENUE, t[j].EST_EXCESS_REVENUE)
OutlierTableFiles == {FamilyFile(fe[1], fe[2]) : fe \in Families \X Eras} \cup {EraFile(e) : e \in Eras}

\* C17 as claimed: every per-family table and every combined per-era table
\* the base script wrote has its rows in non-increasing EST_EXCESS_REVENUE
C17_OutlierTablesSortedByExcess ==
    \A f \in OutlierTableFiles : ExcessNonIncreasing(files[f].rows)

\* the flagged file and the position of a row in the full convergence table
FlaggedTable == files[FlaggedFile].rows
PositionInConv(r) == CHOOSE i \in DOMAIN Conv : Conv[i] = r

C19_FlaggedHaveTwoSignalTypes ==
    \A r \in SeqRange(FlaggedTable) : r.SIGNAL_TYPE_COUNT >= 2

\* the column add_signal fills from each signal file
SignalColumn ==
    [f \in SignalFiles |->
        CASE f = "individual_specialty_outliers.csv" -> "SIG_SPECIALTY_OUTLIER"
          [] f = "temporal_spikes.csv" -> "SIG_TEMPORAL_SPIKE"
          [] f = "ghost_providers_impossible_volume.csv" -> "SIG_GHOST_PROVIDER"
          [] f = "individual_oig_matches.csv" -> "SIG_OIG_EXCLUDED"
          [] f = "temporal_disappearances.csv" -> "SIG_TEMPORAL_DISAPPEARANCE"
          [] f = "temporal_new_entrants.csv" -> "SIG_FAST_STARTER"]
ConvergenceRan == pc \in {"conv_done", "conv_crashed", "conv_failed"}
MissingSignalFiles == {f \in SignalFiles : ~signals[f].present}

AdjustStageFiles == {AdjustedFile(e) : e \in Eras} \cup {AdjustmentSummaryFile}
ConvergeStageFiles == {ConvergenceFile, FlaggedFile}
AllOrNone(F) == (\A f \in F : files[f].present) \/ (\A f \in F : ~files[f].present)

\* C21 as claimed: a stage that failed has left either all of its output
\* files or none of them
C21_FailedStageAllOrNothing ==
    /\ pc = "adj_failed" => AllOrNone(AdjustStageFiles)
    /\ pc \in {"conv_failed", "conv_crashed"} => AllOrNone(ConvergeStageFiles)

\* the output files of the base stage, and the stage that is running at each
\* position of the run
BaseStageFiles == FileNames \ (AdjustStageFiles \cup ConvergeStageFiles)
StageFilesAt(at) ==
    CASE at \in {"pre2021", "post2021", "cross"} -> BaseStageFiles
      [] at = "adj_post2021" -> AdjustStageFiles
      [] OTHER -> AdjustStageFiles \cup ConvergeStageFiles
ChangedFiles == {f \in FileNames : files'[f] # files[f]}

\* C22: in every step of a run a file that exists is left as it is (each file
\* is written at most once), a step writes only files of the stage that is
\* running, and the file names of the three stages are pairwise disjoint
C22_WriteOnce ==
    [][ /\ \A f \in FileNames : files[f].present => files'[f] = files[f]
        /\ ChangedFiles \subseteq StageFilesAt(pc)
        /\ pc = "base_done" =>
              \/ ChangedFiles \subseteq AdjustStageFiles
              \/ ChangedFiles \subseteq ConvergeStageFiles
        /\ AdjustStageFiles \cap ConvergeStageFiles = {}
        /\ BaseStageFiles \cap (AdjustStageFiles \cup ConvergeStageFiles) = {}
        /\ BaseStageFiles # {} ]_vars

\* the adjustment stage failed after the base stage and its own first pass
\* had written their tables
C22_Witness ==
    /\ pc = "adj_failed"
    /\ files[EraFile("pre2021")].present
    /\ files[AdjustedFile("pre2021")].present

\* C23 as claimed: no adjusted table on disk has a NaN or infinite
\* ADJ_RESIDUAL or ADJ_Z_SCORE
C23_AdjustedTablesFinite ==
    \A r \in AdjustedRows : IsFinite(r.ADJ_RESIDUAL) /\ IsFinite(r.ADJ_Z_SCORE)

\* the sum of the four per-category counts of a row
CategoryCountSum(r) ==
    r.BILLING_ANOMALY_COUNT + r.FRAUD_INFRA_COUNT + r.REGULATORY_COUNT + r.TEMPORAL_COUNT

AnalyzeCodeFamilyPrints(result) ==
    IF result = <<>> THEN {}
    ELSE {Len(result), Cardinality({i \in DOMAIN result : result[i].IS_OUTLIER})}

\* run_era_analysis: the counts printed for one era, those of both families,
\* then "(<height> rows)" and "<outliers> outliers" of the combined table
\* (the remaining figures printed are prices and dollar sums)
RunEraAnalysisPrints(df_new, df_est) ==
    LET combined == df_new \o df_est
    IN  AnalyzeCodeFamilyPrints(df_new) \cup AnalyzeCodeFamilyPrints(df_est)
        \cup AnalyzeCodeFamilyPrints(combined)

\* the cohorts of one family and era that have qualifying providers, fewer
\* than MIN_PEERS, and their members
ExcludedCohorts(fam, era) ==
    {s \in {"A", "B", "C"} :
        /\ QualifyingMembers(fam, era, s) # {}
        /\ Cardinality(QualifyingMembers(fam, era, s)) < MIN_PEERS}
ExcludedMembers(fam, era) ==
    UNION {QualifyingMembers(fam, era, s) : s \in ExcludedCohorts(fam, era)}
EraAnalysed(era) ==
    IF era = "pre2021" THEN pc \notin {"load", "pre2021"}
    ELSE pc \notin {"load", "pre2021", "post2021"}

\* C25: once an era is analysed, the members of a cohort below MIN_PEERS are
\* in no table of the era, and the counts printed for the era include the
\* number of excluded cohorts or the number of excluded members
C25_ExcludedAndReported ==
    \A fe \in Families \X Eras :
        (EraAnalysed(fe[2]) /\ ExcludedCohorts(fe[1], fe[2]) # {}) =>
            /\ \A r \in FamilyRows(fe[1], fe[2]) : r.NPI \notin ExcludedMembers(fe[1], fe[2])
            /\ \E k \in RunEraAnalysisPrints(files[FamilyFile("new", fe[2])].rows,
                                             files[FamilyFile("est", fe[2])].rows) :
                  k \in {Cardinality(ExcludedCohorts(fe[1], fe[2])),
                         Cardinality(ExcludedMembers(fe[1], fe[2]))}

(***************************************************************************)
(* The adjusted flag                                                       *)
(***************************************************************************)
AdjustedTable(era) == files[AdjustedFile(era)].rows
\* the rows of an adjusted table that share the specialty of row i
SpecialtyGroup(t, i) ==
    {j \in DOMAIN t : t[j].BENCHMARK_SPECIALTY = t[i].BENCHMARK_SPECIALTY}
ResidualColumn(t) == [j \in DOMAIN t |-> t[j].ADJ_RESIDUAL]

OtherEra(era) == IF era = "pre2021" THEN "post2021" ELSE "pre2021"
\* the claim rows of the snapshot that belong to one era
OwnRows(era) == {r \in Medicaid(loaded) : InEra(r.CLAIM_FROM_MONTH, era)}
\* other contents of the other era: nothing, the filler providers alone, the
\* filler providers with an upcoder or a downcoder, a lone upcoder
OtherEraChanges(era) ==
    LET o == OtherEra(era)
        fillers == {r \in FillerRows : InEra(r.CLAIM_FROM_MONTH, o)}
    IN  {{}, fillers, HistoryRows(1, o, "new_high_est_high")}
        \cup {fillers \cup HistoryRows(2, o, h) : h \in PlainHistories}
\* what the output directory holds once both eras have run
AfterBothEras(first, second) ==
    WriteAll(WriteAll([f \in FileNames |-> Missing],
                      RunEraAnalysisWrites(EmBase(Medicaid(loaded)), first)),
             RunEraAnalysisWrites(EmBase(Medicaid(loaded)), second))

\* the directory after run_era_analysis has run on one era of a snapshot that
\* holds the era's own claim rows and some other contents of the other era
EraRunAlone(era, other) ==
    WriteAll([f \in FileNames |-> Missing],
             RunEraAnalysisWrites(EmBase(OwnRows(era) \cup other), era))
\* the files of dir that one era's run has written
WrittenBy(dir, run) == [f \in {g \in FileNames : run[g].present} |-> dir[f]]

\* C27: right after an era has run, the files it has written are those
\* run_era_analysis writes from the era's own claim rows, whatever the other
\* era holds; and after both eras the directory is the same for either order
\* of the two runs
C27_ErasIndependent ==
    /\ pc = "post2021" =>
          \A other \in OtherEraChanges("pre2021") : files = EraRunAlone("pre2021", other)
    /\ pc = "cross" =>
          /\ \A e \in Eras :
                \A other \in OtherEraChanges(e) :
                    LET run == EraRunAlone(e, other)
                    IN  WrittenBy(files, run) = WrittenBy(run, run)
          /\ files = AfterBothEras("pre2021", "post2021")
          /\ files = AfterBothEras("post2021", "pre2021")

\* both eras have written an outlier table, and the two tables differ in
\* their providers
C27_Witness ==
    /\ pc = "cross"
    /\ files[EraFile("pre2021")].present /\ files[EraFile("post2021")].present
    /\ {r.NPI : r \in EraRows("pre2021")} # {r.NPI : r \in EraRows("post2021")}
    /\ \E r \in EraRows("pre2021") : r.IS_OUTLIER

(***************************************************************************)
(* The MIN_CLAIMS floor                                                    *)
(***************************************************************************)
\* the claims of one provider in one era of the snapshot, all codes together
EraClaims(npi, era) ==
    LET rs == {r \in OwnRows(era) : r.NPI = npi}
    IN  SumF([r \in rs |-> r.TOTAL_CLAIMS], rs)
\* the rows of a per-family table that share the specialty of r
CohortOf(t, r) == {q \in t : q.BENCHMARK_SPECIALTY = r.BENCHMARK_SPECIALTY}

\* C28: every provider in a per-family table (and so in the per-era table)
\* has at least MIN_CLAIMS claims in that era, and PEER_COUNT and MEDIAN_PWI of its row are the count
\* and the median over the table's rows of its specialty, that is over
\* providers at or above the floor only
C28_MinClaimsFloor ==
    \A fe \in Families \X Eras :
        LET t == FamilyRows(fe[1], fe[2])
        IN  \A r \in t :
              /\ EraClaims(r.NPI, fe[2]) >= MIN_CLAIMS
              /\ r.TOTAL_EM_CLAIMS >= MIN_CLAIMS
              /\ r.PEER_COUNT = Cardinality(CohortOf(t, r))
              /\ r.MEDIAN_PWI =
                    Median([q \in CohortOf(t, r) |-> q.PRICE_WEIGHTED_INDEX], CohortOf(t, r))

\* a written table whose cohort leaves out a provider of the same specialty
\* that billed in the family and era, fewer than MIN_CLAIMS claims
C28_Witness ==
    /\ pc = "cross"
    /\ \E fe \in Families \X Eras :
          \E r \in FamilyRows(fe[1], fe[2]) :
              \E n \in FocusNPIs :
                  /\ BenchmarkSpecialty(n) = r.BENCHMARK_SPECIALTY
                  /\ EraClaims(n, fe[2]) > 0
                  /\ EraClaims(n, fe[2]) < MIN_CLAIMS
                  /\ \A q \in FamilyRows(fe[1], fe[2]) : q.NPI # n

(***************************************************************************)
(* The rows of the adjusted table                                          *)
(***************************************************************************)
RowKey(r) == <<r.NPI, r.CODE_FAMILY>>
\* how many rows of table t carry key k
KeyCount(t, k) == Cardinality({i \in DOMAIN t : RowKey(t[i]) = k})
RowKeys(t) == {RowKey(t[i]) : i \in DOMAIN t}

\* C29: a written adjusted table has the rows of the per-era table it was
\* fitted on: the same multiset of (NPI, CODE_FAMILY), none dropped and none
\* duplicated (every cohort of a per-era table has PEER_COUNT >= MIN_PEERS)
C29_AdjustedKeepsRows ==
    \A e \in Eras :
        files[AdjustedFile(e)].present =>
            LET a == AdjustedTable(e)
                b == files[EraFile(e)].rows
            IN  /\ \A i \in DOMAIN b : b[i].PEER_COUNT >= MIN_PEERS
                /\ Len(a) = Len(b)
                /\ \A k \in RowKeys(a) \cup RowKeys(b) : KeyCount(a, k) = KeyCount(b, k)

\* an adjusted table fitted on a per-era table in which a provider has a row
\* in each family, and one fitted on a table with exactly MIN_PEERS rows
C29_Witness ==
    /\ \E e \in Eras :
          /\ files[AdjustedFile(e)].present
          /\ LET b == files[EraFile(e)].rows
             IN  \E i, j \in DOMAIN b :
                    b[i].NPI = b[j].NPI /\ b[i].CODE_FAMILY # b[j].CODE_FAMILY
    /\ \E e \in Eras :
          /\ files[AdjustedFile(e)].present
          /\ Len(files[EraFile(e)].rows) = MIN_PEERS

(***************************************************************************)
(* The rows of the convergence table                                       *)
(***************************************************************************)
\* C30: a written convergence table has one row per provider flagged
\* IS_OUTLIER in either per-era table and none for anybody else; PRIMARY_ERA is
\* post2021 for a provider flagged in the post-2021 table and pre2021 for one
\* flagged in the pre-2021 table alone
C30_OneRowPerOutlierNpi ==
    files[ConvergenceFile].present =>
        /\ {r.NPI : r \in ConvRows} = OutlierNPIs("pre2021") \cup OutlierNPIs("post2021")
        /\ \A i, j \in DOMAIN Conv : Conv[i].NPI = Conv[j].NPI => i = j
        /\ \A r \in ConvRows :
              /\ r.PRIMARY_ERA \in Eras
              /\ r.PRIMARY_ERA = "post2021" <=> r.NPI \in OutlierNPIs("post2021")
              /\ r.PRIMARY_ERA = "pre2021" <=>
                     r.NPI \in OutlierNPIs("pre2021") \ OutlierNPIs("post2021")

\* a convergence table with a provider flagged in pre-2021 alone and one
\* flagged in both eras, in the later one with a flagged row in each family;
\* a third provider is in an era table and unflagged
C30_Witness ==
    /\ files[ConvergenceFile].present
    /\ \E r \in ConvRows : r.PRIMARY_ERA = "pre2021"
    /\ \E r \in ConvRows :
          /\ r.NPI \in OutlierNPIs("pre2021")
          /\ Cardinality(FlaggedRows("post2021", r.NPI)) = 2
    /\ \E q \in EraRows("post2021") : ~q.IS_OUTLIER

====
